---- MODULE Spec2Model ----
(***************************************************************************)
(* A model of proxy.py, the tornado based forwarding proxy:                *)
(*   - RulesConnector: the rule file, check_update / load_rules, connect   *)
(*   - ProxyHandler: the per-connection callbacks on_method, on_headers,   *)
(*     on_connected, on_connect_connected, with write_to / pipe            *)
(*   - SocksConnector.connect and its inner callbacks                      *)
(* Every callback runs to completion on the single IOLoop thread, so each  *)
(* callback is one action.                                                 *)
(***************************************************************************)
EXTENDS Integers, Sequences, FiniteSets, TLC

VARIABLES
    file,          \* the rule file on disk: [lines, mtime, readable]
    rules,         \* RulesConnector.rules
    modify_time,   \* RulesConnector._modify_time
    connectors,    \* RulesConnector._connectors (the upstream URLs cached)
    published,     \* history: the list built by the last load_rules that returned
    lastConnect    \* history: the RulesConnector.connect call made by the last step

rvars == <<file, rules, modify_time, connectors, published, lastConnect>>

\* ProxyHandler: one accepted connection
VARIABLES
    req,        \* what the client sends first: [line, hdrs]
    connector,  \* ProxyServer.connector: "direct", "reject" or "rules"
    cMax, uMax, \* how many bytes the client / the upstream send after that
    method, url, ver, headers,   \* the handler's fields (method "" is None)
    mode,       \* the callback handed to connect: "none", "tunnel", "plain"
    conn,       \* the connector's answer: "idle", "pending", "stream",
                \* "reject", "failed"
    sockets,    \* sockets opened for this session
    inOpen, outOpen,     \* not incoming.closed(), not outgoing.closed()
    inRead, need,        \* the read registered on incoming, bytes it still wants
    outRead,             \* the read registered on outgoing
    inFinal, outFinal,   \* a read_until_close callback with b'' is scheduled
    inbuf, outbuf,       \* bytes received and not yet handed to a callback
    cSent, uSent,        \* bytes the client / the upstream have sent
    cEOF, uEOF,          \* the client / the upstream has closed its end
    cout, uout,          \* what was written to the client / the upstream
    raised               \* the exception that last escaped a callback, or ""

svars == <<req, connector, cMax, uMax, method, url, ver, headers, mode, conn,
           sockets, inOpen, outOpen, inRead, need, outRead, inFinal, outFinal,
           inbuf, outbuf, cSent, uSent, cEOF, uEOF, cout, uout, raised>>

\* SocksConnector.connect: one call
VARIABLES
    kargs,      \* the call's [host, port]
    kreply,     \* the 8 bytes the SOCKS server answers with, if it gets to
    kstage,     \* "connecting", "awaiting" (read_bytes(8) registered), "over"
    kOpen,      \* not stream.closed()
    kCloseCb,   \* the stream's close callback is socks_close (not None)
    krecv,      \* bytes of the answer received so far
    kout,       \* the bytes written to the SOCKS server
    kcalls,     \* what callback was called with, in order: "stream" / "None"
    kraised     \* the exception that last escaped a callback, or ""

kvars == <<kargs, kreply, kstage, kOpen, kCloseCb, krecv, kout, kcalls, kraised>>

\* HttpConnector.connect: one call
VARIABLES
    hauth,      \* self.auth is set
    hreply,     \* what the proxy answers up to the blank line: its lines, each
                \* the sequence of its whitespace separated tokens
    hstage,     \* "connecting", "awaiting" (read_until registered), "closing"
                \* (closed, close callback scheduled), "over"
    hOpen,      \* not stream.closed()
    hCloseCb,   \* the stream's close callback is http_close (not None)
    hrecv,      \* lines of the answer received so far
    hout,       \* what was written to the proxy, one item per write call
    hcalls,     \* what callback was called with, in order
    hraised     \* the exception that last escaped a callback, or ""

hvars == <<hauth, hreply, hstage, hOpen, hCloseCb, hrecv, hout, hcalls, hraised>>

\* DirectConnector.connect: one call
VARIABLES
    dstage,     \* "connecting", "connected", "over" (the stream has closed)
    dCloseCb,   \* the stream's close callback is on_close (not None)
    dcalls      \* what callback was called with, in order

dvars == <<dstage, dCloseCb, dcalls>>

\* A second accepted connection: the IOLoop runs the callbacks of the handler
\* whose state the session variables hold, the other handler's state is kept
\* in parked
VARIABLES
    parked,     \* the fields and streams of the other ProxyHandler
    turn        \* which handler (1 or 2) the session variables hold

pvars == <<parked, turn>>

xvars == <<hvars, dvars, pvars>>

(***************************************************************************)
(* Bounds                                                                  *)
(***************************************************************************)
\* Bytes each side sends in each of two concurrent tunnels
MaxTunnelChunks == 1
\* Lines of the rule file
MaxLines == 2
\* Edits of the rule file
MaxMtime == 2
\* Bytes the client / the upstream send after the request
MaxChunks == 2
\* Header lines of a request of SpecHeaders
MaxHeaders == 2

(***************************************************************************)
(* The rule file.  A line is the sequence of its whitespace separated      *)
(* tokens (what l.strip().split() yields); a line that holds a byte the    *)
(* text decoder rejects is the one token Undecodable.                      *)
(***************************************************************************)
Undecodable == <<"\\xff">>

RuleLines ==
    { <<>>,                              \* a blank line
      <<"#.*", "reject://">>,            \* a comment
      <<".*badhost.*", "reject://">>,
      <<".*", "socks://s:1080">>,
      <<"(", "direct://">>,              \* the pattern does not compile
      <<".*", "ftp://x">>,               \* no connector accepts the scheme
      <<"lonely">>,                      \* one token
      <<".*", "reject://", "more">>,     \* three tokens
      Undecodable }

\* The string host + ':' + str(port) that connect matches, as the pair it is
\* built from
HostPorts == { <<"badhost", 80>>, <<"example.com", 443>> }

CatchAll == <<".*", "direct://">>

\* re.compile(rule_pattern, re.I): whether the pattern compiles
Compiles(pat) == pat # "("

\* re.match(rule, s) for the compiled patterns of the model
Matches(pat, s) ==
    CASE pat = ".*" -> TRUE
      [] pat = ".*badhost.*" -> s[1] = "badhost"
      [] pat = "#.*" -> FALSE
      [] OTHER -> FALSE

\* urlparse(url).scheme
SchemeOf(upstream) ==
    CASE upstream = "direct://" -> "direct"
      [] upstream = "reject://" -> "reject"
      [] upstream = "socks://s:1080" -> "socks"
      [] upstream = "http://p:3128" -> "http"
      [] upstream = "ftp://x" -> "ftp"
      [] OTHER -> ""

\* Connector.get(upstream): the class whose accept(scheme) is true, or "raise"
ConnectorGet(upstream) ==
    IF SchemeOf(upstream) \in {"reject", "direct", "socks", "http", "rules"}
    THEN SchemeOf(upstream)
    ELSE "raise"

\* l.startswith('#') on the stripped line
StartsWithHash(line) == Len(line) > 0 /\ line[1] \in {"#.*", "#"}

\* One pass of the loop body of load_rules: the rules a line adds
ParseLine(line) ==
    IF Len(line) = 0 \/ StartsWithHash(line) THEN <<>>
    ELSE IF Len(line) # 2 THEN <<>>                      \* the unpacking raises
    ELSE IF ConnectorGet(line[2]) = "raise" THEN <<>>    \* Connector.get raises
    ELSE IF ~Compiles(line[1]) THEN <<>>                 \* re.compile raises
    ELSE << <<line[1], line[2]>> >>

\* Mutant: the first line that is no rule ends the loop
RECURSIVE ParseLinesStop(_)
ParseLinesStop(lines) ==
    IF lines = <<>> THEN <<>>
    ELSE IF Len(Head(lines)) > 0 /\ ~StartsWithHash(Head(lines))
            /\ ParseLine(Head(lines)) = <<>>
    THEN <<>>
    ELSE ParseLine(Head(lines)) \o ParseLinesStop(Tail(lines))

RECURSIVE ParseLines(_)
ParseLines(lines) ==
    IF lines = <<>> THEN <<>>
    ELSE ParseLine(Head(lines)) \o ParseLines(Tail(lines))

FirstUndecodable(lines) ==
    IF \E i \in 1..Len(lines) : lines[i] = Undecodable
    THEN CHOOSE i \in 1..Len(lines) :
            /\ lines[i] = Undecodable
            /\ \A j \in 1..(i - 1) : lines[j] # Undecodable
    ELSE 0

(***************************************************************************)
(* load_rules.  self.rules = [] comes first; open() raises on a file that  *)
(* cannot be read, and the iteration raises on a chunk that cannot be      *)
(* decoded: the lines of earlier chunks have been appended by then (how    *)
(* many depends on the byte lengths the model leaves out).  Only a run     *)
(* that reaches the last line appends the catch-all.                       *)
(***************************************************************************)
LoadOutcomes(f) ==
    IF ~f.readable THEN { [ok |-> FALSE, rules |-> <<>>] }
    ELSE IF FirstUndecodable(f.lines) # 0
    THEN { [ok |-> FALSE, rules |-> ParseLines(SubSeq(f.lines, 1, k))] :
              k \in 0..(FirstUndecodable(f.lines) - 1) }
    ELSE { [ok |-> TRUE, rules |-> ParseLines(f.lines) \o <<CatchAll>>] }

NoCall == [s |-> <<"", 0>>, delegated |-> <<>>, raised |-> FALSE]

\* The index of the first rule of rl that matches s, 0 when none does
FirstMatch(rl, s) ==
    IF \E i \in 1..Len(rl) : Matches(rl[i][1], s)
    THEN CHOOSE i \in 1..Len(rl) :
            /\ Matches(rl[i][1], s)
            /\ \A j \in 1..(i - 1) : ~Matches(rl[j][1], s)
    ELSE 0

(***************************************************************************)
(* RulesConnector.connect(host, port, callback): the upstream URLs whose   *)
(* connector's connect is called, in call order.                           *)
(***************************************************************************)
Delegated(rl, s) ==
    IF FirstMatch(rl, s) = 0 THEN <<>> ELSE << rl[FirstMatch(rl, s)][2] >>

RulesConnect(s) ==
    /\ lastConnect' = [s |-> s, delegated |-> Delegated(rules, s),
                       raised |-> FirstMatch(rules, s) = 0]
    /\ connectors' = connectors \cup {Delegated(rules, s)[i] :
                                        i \in 1..Len(Delegated(rules, s))}
    /\ UNCHANGED <<file, rules, modify_time, published>>

(***************************************************************************)
(* check_update, the PeriodicCallback: an exception of load_rules is       *)
(* logged by the IOLoop and the callback is scheduled again.               *)
(***************************************************************************)
CheckUpdate ==
    /\ IF file.mtime # modify_time
       THEN /\ modify_time' = file.mtime
            /\ \E o \in LoadOutcomes(file) :
                 /\ rules' = o.rules
                 /\ published' = IF o.ok THEN o.rules ELSE published
       ELSE UNCHANGED <<rules, modify_time, published>>
    /\ lastConnect' = NoCall
    /\ UNCHANGED <<file, connectors>>
    /\ UNCHANGED <<svars, kvars, xvars>>

(***************************************************************************)
(* The environment edits the rule file: a line is appended, the file is    *)
(* truncated, or it is replaced by a file the process may not read; each   *)
(* edit moves the mtime on.                                                *)
(***************************************************************************)
EditFile ==
    /\ file.mtime < MaxMtime
    /\ \/ \E l \in RuleLines :
            /\ file.readable
            /\ Len(file.lines) < MaxLines
            /\ file' = [file EXCEPT !.lines = Append(@, l), !.mtime = @ + 1]
       \/ file' = [lines |-> <<>>, mtime |-> file.mtime + 1, readable |-> TRUE]
       \/ file' = [lines |-> <<>>, mtime |-> file.mtime + 1, readable |-> FALSE]
    /\ lastConnect' = NoCall
    /\ UNCHANGED <<rules, modify_time, connectors, published>>
    /\ UNCHANGED <<svars, kvars, xvars>>

Dispatch == (\E s \in HostPorts : RulesConnect(s)) /\ UNCHANGED <<svars, kvars, xvars>>

(***************************************************************************)
(* Header values.  A received header line is name, ':' and the rest; the   *)
(* rest is `lead` spaces and a text.  A value is kept as [lead, chop,      *)
(* text]: the text, after `lead` spaces, without its first byte if chop.   *)
(***************************************************************************)
Val(text) == [lead |-> 0, chop |-> FALSE, text |-> text]

RawHeader(name, lead, text) ==
    [name |-> name, colon |-> TRUE, lead |-> lead, text |-> text]

\* header[:i], header[i + 2:] with i the place of the first ':'
ParseHeader(h) ==
    << h.name,
       IF h.lead >= 1
       THEN [lead |-> h.lead - 1, chop |-> FALSE, text |-> h.text]
       ELSE [lead |-> 0, chop |-> TRUE, text |-> h.text] >>

DictHas(d, k) == \E i \in 1..Len(d) : d[i][1] = k

DictGet(d, k) == d[CHOOSE i \in 1..Len(d) : d[i][1] = k][2]

\* OrderedDict.__setitem__: a known key keeps its place
DictSet(d, k, v) ==
    IF DictHas(d, k)
    THEN [i \in 1..Len(d) |-> IF d[i][1] = k THEN <<k, v>> ELSE d[i]]
    ELSE Append(d, <<k, v>>)

\* del d[k]
DictDel(d, k) == SelectSeq(d, LAMBDA e : e[1] # k)

\* OrderedDict(header_parser(headers_buffer)); a line without ':' yields nothing
RECURSIVE header_parser(_, _)
header_parser(hdrs, d) ==
    IF hdrs = <<>> THEN d
    ELSE header_parser(Tail(hdrs),
            IF Head(hdrs).colon
            THEN DictSet(d, ParseHeader(Head(hdrs))[1], ParseHeader(Head(hdrs))[2])
            ELSE d)

\* The texts of the model that hold a ':'; hostport_parser splits there
HostOf(text) ==
    CASE text = "badhost:80" -> "badhost"
      [] text = "example.com:443" -> "example.com"
      [] text = "badhost:http" -> "badhost"
      [] OTHER -> text

\* int(hostport[i + 1:]): -1 when int() raises, 0 when the text holds no ':'
PortOf(text) ==
    CASE text = "badhost:80" -> 80
      [] text = "example.com:443" -> 443
      [] text = "badhost:http" -> -1
      [] OTHER -> 0

\* hostport_parser(hostport, default_port) on a value: <<host, port>>, port -1
\* when int() raises.  A host with a space before it, or less its first byte,
\* is another host name.
hostport_parser(v, default_port) ==
    << IF v.lead = 0 /\ ~v.chop THEN HostOf(v.text) ELSE "?",
       IF PortOf(v.text) = 0 THEN default_port ELSE PortOf(v.text) >>

\* int(self.headers[b'Content-Length']): -1 when int() raises; int() skips
\* leading spaces, and a value less its first byte is another number
IntOf(v) ==
    IF v.chop
    THEN (CASE v.text = "12" -> 2 [] OTHER -> -1)
    ELSE (CASE v.text = "0" -> 0 [] v.text = "1" -> 1 [] v.text = "2" -> 2
            [] v.text = "12" -> 12 [] OTHER -> -1)

\* urlunparse((b'', b'') + urlparse(self.url)[2:])
PathOnly(u) ==
    CASE u = "http://example.com/a?b=1" -> "/a?b=1"
      [] u = "http://badhost/" -> "/"
      [] u = "http://example.com" -> ""
      [] OTHER -> u

(***************************************************************************)
(* What is written to a stream, one item per write call.                   *)
(***************************************************************************)
Established == [t |-> "status", text |-> "HTTP/1.1 200 Connection Established"]
Gone == [t |-> "status", text |-> "HTTP/1.1 410 Gone"]
ReqLine(m, p, v) == [t |-> "reqline", method |-> m, target |-> p, ver |-> v]
HeaderItem(k, v) == [t |-> "header", k |-> k, v |-> v]
Blank == [t |-> "blank"]
Byte(src, n) == [t |-> "data", src |-> src, n |-> n]

\* The write calls of on_connected before the body, in order
RequestHead(m, u, v, d) ==
    <<ReqLine(m, PathOnly(u), v)>>
    \o [i \in 1..Len(d) |-> HeaderItem(d[i][1], d[i][2])]
    \o <<Blank>>

(***************************************************************************)
(* The handler's callbacks, as functions of the session's state S (the     *)
(* record Cur of the variables a callback can change).  S.exc names the    *)
(* exception a callback ends with, "" when it returns.                     *)
(***************************************************************************)
Cur ==
    [method |-> method, url |-> url, ver |-> ver, headers |-> headers,
     mode |-> mode, conn |-> conn, sockets |-> sockets,
     inOpen |-> inOpen, outOpen |-> outOpen, inRead |-> inRead, need |-> need,
     outRead |-> outRead, inFinal |-> inFinal, outFinal |-> outFinal,
     inbuf |-> inbuf, outbuf |-> outbuf, cout |-> cout, uout |-> uout,
     raised |-> raised, exc |-> ""]

Becomes(S) ==
    /\ method' = S.method /\ url' = S.url /\ ver' = S.ver
    /\ headers' = S.headers /\ mode' = S.mode /\ conn' = S.conn
    /\ sockets' = S.sockets /\ inOpen' = S.inOpen /\ outOpen' = S.outOpen
    /\ inRead' = S.inRead /\ need' = S.need /\ outRead' = S.outRead
    /\ inFinal' = S.inFinal /\ outFinal' = S.outFinal
    /\ inbuf' = S.inbuf /\ outbuf' = S.outbuf
    /\ cout' = S.cout /\ uout' = S.uout /\ raised' = S.raised

\* IOStream.close() on incoming: a pending read_bytes is dropped, a pending
\* read_until_close gets its callbacks scheduled; the request line and the
\* headers are in the buffer already, and a read_until they satisfy still
\* completes
CloseIn(S) ==
    IF ~S.inOpen THEN S
    ELSE [S EXCEPT !.inOpen = FALSE,
                   !.inRead = IF @ \in {"line", "headers"} THEN @ ELSE "none",
                   !.need = 0,
                   !.inFinal = (S.inRead = "until_close")]

\* outgoing.close(); RejectConnector has no close attribute
CloseOut(S) ==
    IF S.conn = "reject" THEN [S EXCEPT !.exc = "AttributeError"]
    ELSE IF ~S.outOpen THEN S
    ELSE [S EXCEPT !.outOpen = FALSE, !.outRead = "none",
                   !.outFinal = (S.outRead = "until_close")]

\* IOStream._run_callback: an exception that escapes a callback of a stream
\* is logged and closes that stream
RunIn(S) ==
    IF S.exc = "" THEN S
    ELSE CloseIn([S EXCEPT !.raised = S.exc, !.exc = ""])

RunOut(S) ==
    IF S.exc = "" THEN S
    ELSE IF S.conn = "reject" THEN [S EXCEPT !.raised = S.exc, !.exc = ""]
    ELSE CloseOut([S EXCEPT !.raised = S.exc, !.exc = ""])

\* write_to(self.incoming) called with one chunk / with b''
WriterIn(S, item) ==
    IF S.inOpen THEN [S EXCEPT !.cout = Append(@, item)] ELSE S

WriterInEnd(S) == CloseIn(S)

\* write_to(outgoing) called with one chunk / with b''; RejectConnector has
\* neither closed nor close
WriterOut(S, item) ==
    IF S.conn = "reject" THEN [S EXCEPT !.exc = "AttributeError"]
    ELSE IF S.outOpen THEN [S EXCEPT !.uout = Append(@, item)] ELSE S

\* Mutant: write_to(outgoing) called with b'' leaves the stream open
WriterOutEndOpen(S) == S

WriterOutEnd(S) == CloseOut(S)

RECURSIVE WriterInAll(_, _)
WriterInAll(S, items) ==
    IF items = <<>> THEN S
    ELSE WriterInAll(WriterIn(S, Head(items)), Tail(items))

RECURSIVE WriterOutAll(_, _)
WriterOutAll(S, items) ==
    IF items = <<>> \/ S.exc # "" THEN S
    ELSE WriterOutAll(WriterOut(S, Head(items)), Tail(items))

\* stream.read_until_close(callback, streaming_callback): on a closed stream
\* the callbacks are scheduled at once
ReadUntilCloseIn(S) ==
    IF S.inOpen THEN [S EXCEPT !.inRead = "until_close"]
    ELSE [S EXCEPT !.inFinal = TRUE]

ReadUntilCloseOut(S) ==
    IF S.outOpen THEN [S EXCEPT !.outRead = "until_close"]
    ELSE [S EXCEPT !.outFinal = TRUE]

\* Mutant: the end of the stream is not signalled after the 410 response
RejectReadUntilCloseOpen(S) == WriterIn(S, Gone)

\* RejectConnector.read_until_close(req_callback, _) with write_to(incoming)
RejectReadUntilClose(S) == WriterInEnd(WriterIn(S, Gone))

\* pipe(self.incoming, outgoing)
Pipe(S) ==
    IF S.conn = "reject" THEN RejectReadUntilClose(ReadUntilCloseIn(S))
    ELSE ReadUntilCloseOut(ReadUntilCloseIn(S))

\* Mutant: the tunnel is piped without the 200 response being written
on_connect_connected_silent(S) ==
    IF S.conn = "failed" THEN CloseIn(S) ELSE Pipe(S)

\* Mutant: a failed connect is answered before the client stream is closed
on_connect_connected_answers(S) ==
    IF S.conn = "failed" THEN CloseIn(WriterIn(S, Gone))
    ELSE Pipe(WriterIn(S, Established))

\* Mutant: the except branch closes the client stream only
on_connect_connected_half(S) ==
    IF S.conn = "failed" THEN CloseIn(S)
    ELSE IF S.inOpen THEN Pipe(WriterIn(S, Established))
    ELSE Pipe(CloseIn(S))

\* on_connect_connected(outgoing); S.conn is what the connector delivered
on_connect_connected(S) ==
    IF S.conn = "failed" THEN CloseIn(S)
    ELSE IF S.inOpen THEN Pipe(WriterIn(S, Established))
    ELSE (LET E == CloseOut(CloseIn(S))        \* the except branch
          IN  IF E.exc # "" THEN E ELSE Pipe(E))

\* Mutant: the body read asks for one byte too many
ReadBytesInOneMore(S, n) == [S EXCEPT !.inRead = "body", !.need = n + 1]

\* self.incoming.read_bytes(n, outgoing.write, outgoing.write)
ReadBytesIn(S, n) ==
    IF ~S.inOpen /\ Len(S.inbuf) < n THEN [S EXCEPT !.exc = "StreamClosedError"]
    ELSE [S EXCEPT !.inRead = "body", !.need = n]

\* The part of on_connected after the head is written: the body read, then
\* the read of the response
RelayBodyAndResponse(S) ==
    LET B == IF DictHas(S.headers, "Content-Length")
             THEN IF IntOf(DictGet(S.headers, "Content-Length")) < 0
                  THEN [S EXCEPT !.exc = "ValueError"]
                  ELSE ReadBytesIn(S, IntOf(DictGet(S.headers, "Content-Length")))
             ELSE S
    IN  IF B.exc # "" THEN B
        ELSE IF B.conn = "reject" THEN RejectReadUntilClose(B)
        ELSE ReadUntilCloseOut(B)

\* on_connected(outgoing); w is the number of write calls on outgoing that
\* return before the stream is found closed (all of them: w = Len(head))
on_connected(S, w) ==
    LET head == RequestHead(S.method, S.url, S.ver, S.headers)
    IN  IF S.conn = "failed" THEN CloseIn(S)
        ELSE IF S.conn = "reject"
        THEN (LET R == RelayBodyAndResponse(S)
              IN  IF R.exc = "StreamClosedError"
                  THEN CloseOut(CloseIn([R EXCEPT !.exc = ""]))
                  ELSE R)
        ELSE IF w < Len(head)
        THEN CloseIn([S EXCEPT !.uout = @ \o SubSeq(head, 1, w),
                               !.outOpen = FALSE])
        ELSE (LET R == RelayBodyAndResponse([S EXCEPT !.uout = @ \o head])
              IN  IF R.exc = "StreamClosedError"
                  THEN CloseOut(CloseIn([R EXCEPT !.exc = ""]))
                  ELSE R)

\* The callback the connector was given, called with its answer
Callback(S, w) ==
    IF S.mode = "tunnel" THEN on_connect_connected(S) ELSE on_connected(S, w)

\* The connector class that serves (host, port): RulesConnector.connect
\* delegates, the others serve it themselves; "raise" when no rule matches
Serving(hp) ==
    IF connector = "rules"
    THEN IF Delegated(rules, hp) = <<>> THEN "raise"
         ELSE ConnectorGet(Delegated(rules, hp)[1])
    ELSE connector

\* self.connector.connect(host, port, callback): RejectConnector calls back
\* at once, the others open a socket and call back later
ConnectorConnect(S, hp, m) ==
    IF Serving(hp) = "raise" THEN [S EXCEPT !.exc = "RuntimeError"]
    ELSE IF Serving(hp) = "reject"
    THEN Callback([S EXCEPT !.mode = m, !.conn = "reject"], 0)
    ELSE [S EXCEPT !.mode = m, !.conn = "pending", !.sockets = @ + 1]

\* Mutant: a line of another token count is passed over
on_method_lenient(S) ==
    IF Len(req.line) # 3 THEN [S EXCEPT !.inRead = "headers"]
    ELSE [S EXCEPT !.method = req.line[1], !.url = req.line[2],
                   !.ver = req.line[3], !.inRead = "headers"]

\* on_method(method)
on_method(S) ==
    IF Len(req.line) # 3 THEN [S EXCEPT !.inRead = "none", !.exc = "ValueError"]
    ELSE [S EXCEPT !.method = req.line[1], !.url = req.line[2],
                   !.ver = req.line[3], !.inRead = "headers"]

\* Mutant: Proxy-Connection is not deleted
PlainHeadersKeep(d) == DictSet(d, "Connection", Val("close"))

\* The rewrite of the headers of a plain request
PlainHeaders(d) ==
    DictSet(DictDel(d, "Proxy-Connection"), "Connection", Val("close"))

\* on_headers(headers_buffer)
on_headers(S) ==
    LET parsed == header_parser(req.hdrs, <<>>)
        R == [S EXCEPT !.inRead = "none"]
    IN  IF S.method = "CONNECT"
        THEN IF hostport_parser(Val(S.url), 443)[2] < 0
             THEN [R EXCEPT !.headers = parsed, !.exc = "ValueError"]
             ELSE ConnectorConnect([R EXCEPT !.headers = parsed],
                                   hostport_parser(Val(S.url), 443), "tunnel")
        ELSE LET P == [R EXCEPT !.headers = PlainHeaders(parsed)]
             IN  IF DictHas(P.headers, "Host")
                 THEN IF hostport_parser(DictGet(P.headers, "Host"), 80)[2] < 0
                      THEN [P EXCEPT !.exc = "ValueError"]
                      ELSE ConnectorConnect(P,
                              hostport_parser(DictGet(P.headers, "Host"), 80),
                              "plain")
                 ELSE CloseIn(P)

\* The (host, port) on_headers calls connect with; port -1 when it does not
ConnectArgs ==
    IF method = "CONNECT" THEN hostport_parser(Val(url), 443)
    ELSE IF DictHas(header_parser(req.hdrs, <<>>), "Host")
    THEN hostport_parser(DictGet(header_parser(req.hdrs, <<>>), "Host"), 80)
    ELSE <<"", -1>>

(***************************************************************************)
(* The actions of a session: the callbacks the IOLoop runs, and what the   *)
(* client and the upstream do.                                             *)
(***************************************************************************)
\* Mutant: the two handlers hold the same client stream
FrameOneStream ==
    /\ UNCHANGED <<req, connector, cMax, uMax, cSent, uSent, cEOF, uEOF>>
    /\ UNCHANGED <<kvars, hvars, dvars, turn>>
    /\ parked' = [parked EXCEPT !.inOpen = @ /\ inOpen']

Frame ==
    /\ UNCHANGED <<req, connector, cMax, uMax, cSent, uSent, cEOF, uEOF>>
    /\ UNCHANGED <<kvars, xvars>>

\* incoming.read_until(b'\r\n', self.on_method) completes; bytes already
\* buffered are handed over even if the client has closed since
OnMethod ==
    /\ inRead = "line"
    /\ Becomes(RunIn(on_method(Cur)))
    /\ Frame /\ UNCHANGED rvars

\* incoming.read_until(b'\r\n\r\n', self.on_headers) completes; a request
\* with no header line never completes it
OnHeaders ==
    /\ inRead = "headers"
    /\ Len(req.hdrs) > 0
    /\ Becomes(RunIn(on_headers(Cur)))
    /\ IF connector = "rules" /\ ConnectArgs[2] >= 0
       THEN RulesConnect(ConnectArgs)
       ELSE UNCHANGED rvars
    /\ Frame

\* The connector calls back: with the connected stream, or with None
ConnectorAnswer ==
    /\ conn = "pending"
    /\ \/ \E w \in 0..Len(RequestHead(method, url, ver, headers)) :
            /\ mode = "tunnel" => w = 0
            /\ Becomes(RunOut(Callback([Cur EXCEPT !.conn = "stream",
                                                   !.outOpen = TRUE], w)))
       \/ Becomes(Callback([Cur EXCEPT !.conn = "failed"], 0))
    /\ Frame /\ UNCHANGED rvars

\* The client sends one more byte
ClientSend ==
    /\ ~cEOF /\ inOpen /\ cSent < cMax
    /\ inbuf' = Append(inbuf, Byte("client", cSent + 1))
    /\ cSent' = cSent + 1
    /\ UNCHANGED <<req, connector, cMax, uMax, method, url, ver, headers, mode,
                   conn, sockets, inOpen, outOpen, inRead, need, outRead,
                   inFinal, outFinal, outbuf, uSent, cEOF, uEOF, cout, uout,
                   raised>>
    /\ UNCHANGED <<rvars, kvars, xvars>>

\* The client closes its end
ClientClose ==
    /\ ~cEOF
    /\ cEOF' = TRUE
    /\ UNCHANGED <<req, connector, cMax, uMax, method, url, ver, headers, mode,
                   conn, sockets, inOpen, outOpen, inRead, need, outRead,
                   inFinal, outFinal, inbuf, outbuf, cSent, uSent, uEOF, cout,
                   uout, raised>>
    /\ UNCHANGED <<rvars, kvars, xvars>>

\* incoming finds its socket closed; a read that consumes bytes sees the
\* bytes sent before the close first
InEOF ==
    /\ cEOF /\ inOpen
    /\ inRead \in {"body", "until_close"} => inbuf = <<>>
    /\ Becomes(CloseIn(Cur))
    /\ Frame /\ UNCHANGED rvars

\* The streaming callback of the read on incoming gets one chunk:
\* outgoing.write for the body, write_to(outgoing) in a tunnel
InData ==
    /\ inOpen /\ inbuf # <<>>
    /\ \/ /\ inRead = "until_close"
          /\ Becomes(RunIn(WriterOut([Cur EXCEPT !.inbuf = Tail(@)], Head(inbuf))))
       \/ /\ inRead = "body" /\ need > 0
          /\ Becomes(RunIn(
               LET S == [Cur EXCEPT !.inbuf = Tail(@), !.need = @ - 1]
               IN  IF S.conn = "reject" THEN S
                   ELSE IF ~S.outOpen THEN [S EXCEPT !.exc = "StreamClosedError"]
                   ELSE [S EXCEPT !.uout = Append(@, Head(inbuf))]))
    /\ Frame /\ UNCHANGED rvars

\* read_bytes has its n bytes: its callback, outgoing.write(b'')
BodyDone ==
    /\ inRead = "body" /\ need = 0
    /\ Becomes(RunIn(
         LET S == [Cur EXCEPT !.inRead = "none"]
         IN  IF S.conn # "reject" /\ ~S.outOpen
             THEN [S EXCEPT !.exc = "StreamClosedError"]
             ELSE S))
    /\ Frame /\ UNCHANGED rvars

\* The callbacks of read_until_close on the closed incoming: what is left in
\* the buffer, then b''
FinalIn ==
    /\ inFinal
    /\ Becomes(LET S == WriterOutAll([Cur EXCEPT !.inFinal = FALSE,
                                                 !.inbuf = <<>>], inbuf)
               IN  IF S.exc # "" THEN RunIn(S) ELSE RunIn(WriterOutEnd(S)))
    /\ Frame /\ UNCHANGED rvars

\* The upstream sends one more byte
UpSend ==
    /\ conn = "stream" /\ ~uEOF /\ outOpen /\ uSent < uMax
    /\ outbuf' = Append(outbuf, Byte("upstream", uSent + 1))
    /\ uSent' = uSent + 1
    /\ UNCHANGED <<req, connector, cMax, uMax, method, url, ver, headers, mode,
                   conn, sockets, inOpen, outOpen, inRead, need, outRead,
                   inFinal, outFinal, inbuf, cSent, cEOF, uEOF, cout, uout,
                   raised>>
    /\ UNCHANGED <<rvars, kvars, xvars>>

\* The upstream closes its end
UpClose ==
    /\ conn = "stream" /\ ~uEOF
    /\ uEOF' = TRUE
    /\ UNCHANGED <<req, connector, cMax, uMax, method, url, ver, headers, mode,
                   conn, sockets, inOpen, outOpen, inRead, need, outRead,
                   inFinal, outFinal, inbuf, outbuf, cSent, uSent, cEOF, cout,
                   uout, raised>>
    /\ UNCHANGED <<rvars, kvars, xvars>>

\* outgoing finds its socket closed
OutEOF ==
    /\ uEOF /\ outOpen
    /\ outRead = "until_close" => outbuf = <<>>
    /\ Becomes(CloseOut(Cur))
    /\ Frame /\ UNCHANGED rvars

\* The streaming callback of outgoing.read_until_close gets one chunk
OutData ==
    /\ outOpen /\ outbuf # <<>> /\ outRead = "until_close"
    /\ Becomes(WriterIn([Cur EXCEPT !.outbuf = Tail(@)], Head(outbuf)))
    /\ Frame /\ UNCHANGED rvars

\* The callbacks of read_until_close on the closed outgoing
FinalOut ==
    /\ outFinal
    /\ Becomes(WriterInEnd(WriterInAll([Cur EXCEPT !.outFinal = FALSE,
                                                   !.outbuf = <<>>], outbuf)))
    /\ Frame /\ UNCHANGED rvars

(***************************************************************************)
(* Two accepted connections.  ProxyServer.handle_stream makes one          *)
(* ProxyHandler per stream; the handlers share the server's connector.     *)
(***************************************************************************)
\* The fields and streams of the handler the session variables hold
Held ==
    [req |-> req, method |-> method, url |-> url, ver |-> ver,
     headers |-> headers, mode |-> mode, conn |-> conn, sockets |-> sockets,
     inOpen |-> inOpen, outOpen |-> outOpen, inRead |-> inRead, need |-> need,
     outRead |-> outRead, inFinal |-> inFinal, outFinal |-> outFinal,
     inbuf |-> inbuf, outbuf |-> outbuf, cSent |-> cSent, uSent |-> uSent,
     cEOF |-> cEOF, uEOF |-> uEOF, cout |-> cout, uout |-> uout,
     raised |-> raised]

\* ProxyHandler(stream, self.connector) for a client that sends r
Accepted(r) ==
    [req |-> r, method |-> "", url |-> "", ver |-> "", headers |-> <<>>,
     mode |-> "none", conn |-> "idle", sockets |-> 0,
     inOpen |-> TRUE, outOpen |-> FALSE, inRead |-> "line", need |-> 0,
     outRead |-> "none", inFinal |-> FALSE, outFinal |-> FALSE,
     inbuf |-> <<>>, outbuf |-> <<>>, cSent |-> 0, uSent |-> 0,
     cEOF |-> FALSE, uEOF |-> FALSE, cout |-> <<>>, uout |-> <<>>,
     raised |-> ""]

\* The state of handler i
Sess(i) == IF turn = i THEN Held ELSE parked

\* The IOLoop turns to the callbacks of the other handler
Switch ==
    /\ parked' = Held /\ turn' = 3 - turn
    /\ req' = parked.req /\ method' = parked.method /\ url' = parked.url
    /\ ver' = parked.ver /\ headers' = parked.headers /\ mode' = parked.mode
    /\ conn' = parked.conn /\ sockets' = parked.sockets
    /\ inOpen' = parked.inOpen /\ outOpen' = parked.outOpen
    /\ inRead' = parked.inRead /\ need' = parked.need
    /\ outRead' = parked.outRead /\ inFinal' = parked.inFinal
    /\ outFinal' = parked.outFinal /\ inbuf' = parked.inbuf
    /\ outbuf' = parked.outbuf /\ cSent' = parked.cSent /\ uSent' = parked.uSent
    /\ cEOF' = parked.cEOF /\ uEOF' = parked.uEOF
    /\ cout' = parked.cout /\ uout' = parked.uout /\ raised' = parked.raised
    /\ UNCHANGED <<connector, cMax, uMax>>
    /\ UNCHANGED <<rvars, kvars, hvars, dvars>>

(***************************************************************************)
(* SocksConnector.connect(host, port, callback) and its inner callbacks    *)
(* socks_connected, socks_response and socks_close, for one call.          *)
(***************************************************************************)
\* 0x5a
SocksGranted == 90

SocksReplies ==
    { <<b0, b1, 0, 0, 0, 0, 0, 0>> : b0 \in {0, 90}, b1 \in {90, 91, 92, 0} }

SocksCalls ==
    { [host |-> h, port |-> p] : h \in {"badhost", "example.com"},
                                 p \in {80, 443, 70000} }

\* b'\x04\x01' + struct.pack('>H', port) + b'\x00\x00\x00\x09userid\x00'
\*   + host + b'\x00'
SocksRequest(host, port) ==
    <<4, 1, port \div 256, port % 256, 0, 0, 0, 9>> \o <<"userid", 0, host, 0>>

\* Mutant: the byte at offset 0 is tested
SocksAcceptsFirst(data) == data[1] = SocksGranted

\* data[1] == 0x5a
SocksAccepts(data) == data[2] = SocksGranted

KCur == [stage |-> kstage, open |-> kOpen, closeCb |-> kCloseCb, out |-> kout,
         calls |-> kcalls, raised |-> kraised]

KBecomes(K) ==
    /\ kstage' = K.stage /\ kOpen' = K.open /\ kCloseCb' = K.closeCb
    /\ kout' = K.out /\ kcalls' = K.calls /\ kraised' = K.raised

\* socks_close()
socks_close(K) == [K EXCEPT !.calls = Append(@, "None")]

\* The stream closes: its close callback, if one is set, runs once
KClose(K) ==
    IF ~K.open THEN K
    ELSE IF K.closeCb
    THEN socks_close([K EXCEPT !.open = FALSE, !.closeCb = FALSE, !.stage = "over"])
    ELSE [K EXCEPT !.open = FALSE, !.stage = "over"]

\* socks_response(data)
socks_response(K, data) ==
    IF SocksAccepts(data)
    THEN [K EXCEPT !.closeCb = FALSE, !.stage = "over",
                   !.calls = Append(@, "stream")]
    ELSE [K EXCEPT !.closeCb = FALSE, !.stage = "over",
                   !.calls = Append(@, "None")]

\* socks_connected(); struct.pack('>H', port) raises for a port over 65535,
\* and the stream's callback wrapper then closes the stream
socks_connected(K) ==
    IF kargs.port > 65535
    THEN KClose([K EXCEPT !.raised = "struct.error"])
    ELSE IF ~K.open THEN socks_close(K)          \* write: StreamClosedError
    ELSE [K EXCEPT !.out = SocksRequest(kargs.host, kargs.port),
                   !.stage = "awaiting"]

KFrame == UNCHANGED <<kargs, kreply>> /\ UNCHANGED <<rvars, svars, xvars>>

\* stream.connect fails: the stream closes before socks_connected runs
SocksConnectFails ==
    /\ kstage = "connecting" /\ kOpen
    /\ KBecomes(KClose(KCur))
    /\ krecv' = krecv /\ KFrame

\* stream.connect's callback runs
SocksConnected ==
    /\ kstage = "connecting" /\ kOpen
    /\ KBecomes(socks_connected(KCur))
    /\ krecv' = krecv /\ KFrame

\* One more byte of the answer arrives
SocksByte ==
    /\ kstage = "awaiting" /\ kOpen /\ krecv < Len(kreply)
    /\ krecv' = krecv + 1
    /\ UNCHANGED <<kstage, kOpen, kCloseCb, kout, kcalls, kraised>> /\ KFrame

\* read_bytes(8, socks_response) has its 8 bytes
SocksResponse ==
    /\ kstage = "awaiting" /\ krecv = 8
    /\ KBecomes(socks_response(KCur, kreply))
    /\ krecv' = krecv /\ KFrame

\* The SOCKS server, or the network, closes the connection; the bytes that
\* arrived before are handled first
SocksServerCloses ==
    /\ kOpen /\ kstage # "connecting"
    /\ ~(kstage = "awaiting" /\ krecv = 8)
    /\ KBecomes(KClose(KCur))
    /\ krecv' = krecv /\ KFrame

\* stream.write finds the connection reset: the write closes the stream and
\* returns, read_bytes then raises StreamClosedError and the except branch
\* calls socks_close; the stream's close callback is scheduled as well
SocksWriteFails ==
    /\ kstage = "connecting" /\ kOpen /\ kargs.port <= 65535
    /\ KBecomes([socks_connected([KCur EXCEPT !.open = FALSE])
                    EXCEPT !.stage = "closing"])
    /\ krecv' = krecv /\ KFrame

\* The close callback of the stream the write closed
SocksCloseCallback ==
    /\ kstage = "closing"
    /\ KBecomes(IF kCloseCb
                THEN socks_close([KCur EXCEPT !.closeCb = FALSE, !.stage = "over"])
                ELSE [KCur EXCEPT !.stage = "over"])
    /\ krecv' = krecv /\ KFrame

(***************************************************************************)
(* HttpConnector.connect(host, port, callback) and its inner callbacks     *)
(* http_connected, http_response and http_close, for one call.             *)
(***************************************************************************)
HttpReplies ==
    { << <<"HTTP/1.1", "200", "Connection", "established">> >>,
      << <<"HTTP/1.0", "200">>, <<"Via:", "p">> >>,
      << <<"HTTP/1.1", "407", "Proxy", "Authentication", "Required">> >>,
      << <<"HTTP/1.1", "502">>, <<"X:", "200">> >>,
      << <<"HTTP/1.1">>, <<"200", "OK">> >>,   \* the first line has one token
      << <<"HTTP/1.1">> >>,                    \* one token in all
      << <<"HTTP/1.1", "OK">> >>,              \* the second token is no number
      << >> }                                  \* the blank line alone

\* data.split(): the tokens of all the lines
RECURSIVE Tokens(_)
Tokens(data) == IF data = <<>> THEN <<>> ELSE Head(data) \o Tokens(Tail(data))

\* int(token): -1 when int() raises
StatusOf(tok) ==
    CASE tok = "200" -> 200
      [] tok = "407" -> 407
      [] tok = "502" -> 502
      [] OTHER -> -1

\* The write calls of http_connected, in order
HttpRequest(auth) ==
    <<"CONNECT">> \o (IF auth THEN <<"Proxy-Authorization">> ELSE <<>>)
    \o <<"Proxy-Connection", "">>

HCur == [stage |-> hstage, open |-> hOpen, closeCb |-> hCloseCb, out |-> hout,
         calls |-> hcalls, raised |-> hraised]

HBecomes(H) ==
    /\ hstage' = H.stage /\ hOpen' = H.open /\ hCloseCb' = H.closeCb
    /\ hout' = H.out /\ hcalls' = H.calls /\ hraised' = H.raised

\* http_close()
http_close(H) == [H EXCEPT !.calls = Append(@, "None")]

\* The stream closes: its close callback, if one is set, runs once
HClose(H) ==
    IF ~H.open THEN H
    ELSE IF H.closeCb
    THEN http_close([H EXCEPT !.open = FALSE, !.closeCb = FALSE, !.stage = "over"])
    ELSE [H EXCEPT !.open = FALSE, !.stage = "over"]

\* http_response(data); an exception that escapes it is logged by the
\* stream's callback wrapper, which closes the stream
http_response(H, data) ==
    LET R == [H EXCEPT !.closeCb = FALSE]
    IN  IF Len(Tokens(data)) < 2 THEN HClose([R EXCEPT !.raised = "IndexError"])
        ELSE IF StatusOf(Tokens(data)[2]) < 0
        THEN HClose([R EXCEPT !.raised = "ValueError"])
        ELSE IF StatusOf(Tokens(data)[2]) = 200
        THEN [R EXCEPT !.stage = "over", !.calls = Append(@, "stream")]
        ELSE [R EXCEPT !.stage = "over", !.calls = Append(@, "None")]

\* http_connected(); w write calls leave the stream open.  With w short of
\* all of them the next write finds the connection reset and closes the
\* stream, the call after it (a write, or read_until) raises
\* StreamClosedError and the except branch calls http_close; the stream's
\* close callback is scheduled as well
http_connected(H, w) ==
    IF w = Len(HttpRequest(hauth))
    THEN [H EXCEPT !.out = HttpRequest(hauth), !.stage = "awaiting"]
    ELSE http_close([H EXCEPT !.out = SubSeq(HttpRequest(hauth), 1, w + 1),
                              !.open = FALSE, !.stage = "closing"])

HFrame == UNCHANGED <<hauth, hreply>> /\ UNCHANGED <<rvars, svars, kvars, dvars, pvars>>

\* stream.connect fails: the stream closes before http_connected runs
HttpConnectFails ==
    /\ hstage = "connecting" /\ hOpen
    /\ HBecomes(HClose(HCur))
    /\ hrecv' = hrecv /\ HFrame

\* stream.connect's callback runs
HttpConnected ==
    /\ hstage = "connecting" /\ hOpen
    /\ \E w \in 0..Len(HttpRequest(hauth)) : HBecomes(http_connected(HCur, w))
    /\ hrecv' = hrecv /\ HFrame

\* The close callback of the stream a write closed
HttpCloseCallback ==
    /\ hstage = "closing"
    /\ HBecomes(IF hCloseCb
                THEN http_close([HCur EXCEPT !.closeCb = FALSE, !.stage = "over"])
                ELSE [HCur EXCEPT !.stage = "over"])
    /\ hrecv' = hrecv /\ HFrame

\* One more line of the answer arrives
HttpLine ==
    /\ hstage = "awaiting" /\ hOpen /\ hrecv < Len(hreply)
    /\ hrecv' = hrecv + 1
    /\ UNCHANGED <<hstage, hOpen, hCloseCb, hout, hcalls, hraised>> /\ HFrame

\* read_until(b'\r\n\r\n', http_response) has its blank line
HttpResponse ==
    /\ hstage = "awaiting" /\ hrecv = Len(hreply)
    /\ HBecomes(http_response(HCur, hreply))
    /\ hrecv' = hrecv /\ HFrame

\* The proxy, or the network, closes the connection before the blank line
HttpServerCloses ==
    /\ hOpen /\ hstage = "awaiting" /\ hrecv < Len(hreply)
    /\ HBecomes(HClose(HCur))
    /\ hrecv' = hrecv /\ HFrame

(***************************************************************************)
(* DirectConnector.connect(host, port, callback) with on_connected and     *)
(* on_close, for one call.                                                 *)
(***************************************************************************)
DFrame == UNCHANGED <<rvars, svars, kvars, hvars, pvars>>

\* stream.connect fails: the stream closes, on_close runs
DirectConnectFails ==
    /\ dstage = "connecting"
    /\ dstage' = "over" /\ dCloseCb' = FALSE
    /\ dcalls' = IF dCloseCb THEN Append(dcalls, "None") ELSE dcalls
    /\ DFrame

\* on_connected(): set_close_callback(None), callback(stream)
DirectConnected ==
    /\ dstage = "connecting"
    /\ dstage' = "connected" /\ dCloseCb' = FALSE
    /\ dcalls' = Append(dcalls, "stream")
    /\ DFrame

\* The connected stream closes later: its close callback, if set, runs
DirectCloses ==
    /\ dstage = "connected"
    /\ dstage' = "over" /\ dCloseCb' = FALSE
    /\ dcalls' = IF dCloseCb THEN Append(dcalls, "None") ELSE dcalls
    /\ DFrame

(***************************************************************************)
(* Initial states and specifications                                       *)
(***************************************************************************)
RulesIdle ==
    /\ file = [lines |-> <<>>, mtime |-> 0, readable |-> TRUE]
    /\ published = <<CatchAll>>
    /\ modify_time = 0
    /\ connectors = {}
    /\ lastConnect = NoCall

SessionStart ==
    /\ method = "" /\ url = "" /\ ver = "" /\ headers = <<>>
    /\ mode = "none" /\ conn = "idle" /\ sockets = 0
    /\ inOpen = TRUE /\ outOpen = FALSE
    /\ inRead = "line" /\ need = 0 /\ outRead = "none"
    /\ inFinal = FALSE /\ outFinal = FALSE
    /\ inbuf = <<>> /\ outbuf = <<>>
    /\ cSent = 0 /\ uSent = 0 /\ cEOF = FALSE /\ uEOF = FALSE
    /\ cout = <<>> /\ uout = <<>> /\ raised = ""

Request(line, hdrs) == [line |-> line, hdrs |-> hdrs]

SessionIdle ==
    /\ req = Request(<<>>, <<>>) /\ connector = "direct"
    /\ cMax = 0 /\ uMax = 0
    /\ SessionStart

SocksStart ==
    /\ kstage = "connecting" /\ kOpen = TRUE /\ kCloseCb = TRUE
    /\ krecv = 0 /\ kout = <<>> /\ kcalls = <<>> /\ kraised = ""

SocksIdle ==
    /\ kargs = [host |-> "", port |-> 0]
    /\ kreply = <<0, 0, 0, 0, 0, 0, 0, 0>>
    /\ SocksStart

HttpStart ==
    /\ hstage = "connecting" /\ hOpen = TRUE /\ hCloseCb = TRUE
    /\ hrecv = 0 /\ hout = <<>> /\ hcalls = <<>> /\ hraised = ""

DirectStart == dstage = "connecting" /\ dCloseCb = TRUE /\ dcalls = <<>>

Alone == parked = Accepted(Request(<<>>, <<>>)) /\ turn = 1

OthersIdle ==
    /\ hauth = FALSE /\ hreply = <<>> /\ HttpStart /\ DirectStart
    /\ Alone

\* RulesConnector.__init__: a load that raises leaves no connector, so the
\* program starts from a file whose first load returned.
InitRules ==
    /\ file \in { [lines |-> ls, mtime |-> 0, readable |-> TRUE] :
                    ls \in { <<>> } \cup { <<l>> : l \in RuleLines \ {Undecodable} } }
    /\ rules = ParseLines(file.lines) \o <<CatchAll>>
    /\ published = rules
    /\ modify_time = 0
    /\ connectors = {}
    /\ lastConnect = NoCall
    /\ SessionIdle /\ SocksIdle /\ OthersIdle

NextRules == CheckUpdate \/ EditFile \/ Dispatch

SpecRules == InitRules /\ [][NextRules]_<<rvars, svars, kvars, xvars>>

\* The requests of the sessions of Spec
HostHdr(text) == RawHeader("Host", 1, text)

SessionRequests ==
    { Request(<<"CONNECT", "example.com:443", "HTTP/1.1">>,
              <<HostHdr("example.com:443")>>),
      Request(<<"CONNECT", "badhost:80", "HTTP/1.1">>,
              <<HostHdr("badhost:80")>>),
      Request(<<"GET", "http://example.com/a?b=1", "HTTP/1.1">>,
              <<HostHdr("example.com"),
                RawHeader("Proxy-Connection", 1, "keep-alive")>>),
      Request(<<"POST", "http://badhost/", "HTTP/1.1">>,
              <<HostHdr("badhost:80"), RawHeader("Content-Length", 1, "1")>>),
      Request(<<"POST", "http://badhost/", "HTTP/1.1">>,
              <<HostHdr("badhost:80"), RawHeader("Content-Length", 1, "2")>>),
      Request(<<"GET", "http://example.com", "HTTP/1.1">>,
              <<RawHeader("Accept", 1, "a")>>),
      Request(<<"GET", "http://example.com/a?b=1">>,
              <<HostHdr("example.com")>>),
      Request(<<"GET", "http://example.com/a?b=1", "", "HTTP/1.1">>,
              <<HostHdr("example.com")>>),
      \* the request line and the blank line, no header line
      Request(<<"GET", "http://example.com/a?b=1", "HTTP/1.0">>, <<>>) }

\* The rule lists of the sessions whose connector is a RulesConnector: a
\* loaded file, and what a load that raised leaves
SessionRules ==
    { << <<".*badhost.*", "reject://">>, CatchAll >>, <<>> }

Init ==
    /\ req \in SessionRequests
    /\ connector \in {"direct", "reject", "rules"}
    /\ rules \in (IF connector = "rules" THEN SessionRules ELSE {<<CatchAll>>})
    /\ cMax = MaxChunks /\ uMax = MaxChunks
    /\ SessionStart /\ RulesIdle /\ SocksIdle /\ OthersIdle

Next ==
    \/ OnMethod \/ OnHeaders \/ ConnectorAnswer
    \/ ClientSend \/ ClientClose \/ InEOF \/ InData \/ BodyDone \/ FinalIn
    \/ UpSend \/ UpClose \/ OutEOF \/ OutData \/ FinalOut

Spec == Init /\ [][Next]_<<rvars, svars, kvars, xvars>>

\* The requests of SpecHeaders: every block of at most MaxHeaders header lines
HeaderLines ==
    { RawHeader("Host", 1, "example.com"),
      RawHeader("Host", 0, "example.com"),
      RawHeader("Proxy-Connection", 1, "keep-alive"),
      RawHeader("proxy-connection", 1, "keep-alive"),
      RawHeader("Connection", 1, "keep-alive"),
      RawHeader("Accept", 1, "a"),
      RawHeader("Accept", 2, "b"),
      [name |-> "garbage", colon |-> FALSE, lead |-> 0, text |-> ""] }

HeaderBlocks ==
    UNION { [1..n -> HeaderLines] : n \in 1..MaxHeaders }

RequestLines ==
    { <<"GET", "http://example.com/a?b=1", "HTTP/1.1">>,
      <<"GET", "http://example.com", "HTTP/1.0">>,
      <<"CONNECT", "example.com:443", "HTTP/1.1">> }

InitHeaders ==
    /\ req \in { Request(l, h) : l \in RequestLines, h \in HeaderBlocks }
    /\ connector = "direct"
    /\ rules = <<CatchAll>>
    /\ cMax = 0 /\ uMax = 0
    /\ SessionStart /\ RulesIdle /\ SocksIdle /\ OthersIdle

NextHeaders == OnMethod \/ OnHeaders \/ ConnectorAnswer

SpecHeaders == InitHeaders /\ [][NextHeaders]_<<rvars, svars, kvars, xvars>>

InitSocks ==
    /\ kargs \in SocksCalls
    /\ kreply \in SocksReplies
    /\ SocksStart
    /\ rules = <<CatchAll>> /\ RulesIdle /\ SessionIdle /\ OthersIdle

NextSocks ==
    \/ SocksConnectFails \/ SocksConnected \/ SocksByte \/ SocksResponse
    \/ SocksServerCloses \/ SocksWriteFails \/ SocksCloseCallback

SpecSocks == InitSocks /\ [][NextSocks]_<<rvars, svars, kvars, xvars>>

\* Two CONNECT sessions accepted by one server; behind the rules connector
\* the first is routed to reject://, the second to direct://
InitTwo ==
    /\ req = Request(<<"CONNECT", "badhost:80", "HTTP/1.1">>,
                     <<HostHdr("badhost:80")>>)
    /\ parked = Accepted(Request(<<"CONNECT", "example.com:443", "HTTP/1.1">>,
                                 <<HostHdr("example.com:443")>>))
    /\ turn = 1
    /\ connector \in {"direct", "rules"}
    /\ rules = << <<".*badhost.*", "reject://">>, CatchAll >>
    /\ cMax = MaxTunnelChunks /\ uMax = MaxTunnelChunks
    /\ SessionStart /\ RulesIdle /\ SocksIdle
    /\ hauth = FALSE /\ hreply = <<>> /\ HttpStart /\ DirectStart

\* The callbacks of CONNECT sessions (no read_bytes is registered in them)
NextTwo ==
    \/ OnMethod \/ OnHeaders \/ ConnectorAnswer
    \/ ClientSend \/ ClientClose \/ InEOF \/ InData \/ FinalIn
    \/ UpSend \/ UpClose \/ OutEOF \/ OutData \/ FinalOut
    \/ Switch

SpecTwo == InitTwo /\ [][NextTwo]_<<rvars, svars, kvars, xvars>>

InitHttp ==
    /\ hauth \in BOOLEAN
    /\ hreply \in HttpReplies
    /\ HttpStart /\ DirectStart /\ Alone
    /\ rules = <<CatchAll>> /\ RulesIdle /\ SessionIdle /\ SocksIdle

NextHttp ==
    \/ HttpConnectFails \/ HttpConnected \/ HttpCloseCallback \/ HttpLine
    \/ HttpResponse \/ HttpServerCloses

SpecHttp == InitHttp /\ [][NextHttp]_<<rvars, svars, kvars, xvars>>

\* One call of connect on each of the Direct, Socks and Http connectors, in
\* flight together
InitConnectors ==
    /\ kargs = [host |-> "example.com", port |-> 443]
    /\ kreply \in { r \in SocksReplies : r[1] = 0 /\ r[2] \in {90, 91} }
    /\ SocksStart
    /\ hauth \in BOOLEAN
    /\ hreply \in HttpReplies
    /\ HttpStart /\ DirectStart /\ Alone
    /\ rules = <<CatchAll>> /\ RulesIdle /\ SessionIdle

NextConnectors ==
    \/ NextSocks \/ NextHttp
    \/ DirectConnectFails \/ DirectConnected \/ DirectCloses

SpecConnectors == InitConnectors /\ [][NextConnectors]_<<rvars, svars, kvars, xvars>>

(***************************************************************************)
(* The claims                                                              *)
(***************************************************************************)

\* C1: after any sequence of loads the rule list ends with the catch-all rule
\* '.*' -> 'direct://'; it is never empty and never lacks that entry.
C1_CatchAllIsLast ==
    /\ Len(rules) > 0
    /\ rules[Len(rules)] = CatchAll

\* C2: the list a dispatch scans is a complete list, the one the last load
\* that ran to its end built; it is never a partially built list.
C2_DispatchScansCompleteList ==
    lastConnect # NoCall => rules = published

\* C3: every connect delegates to exactly one sub-connector, the one of the
\* upstream URL of the first rule in list order that matches host:port.
C3_FirstMatchDelegatesOnce ==
    lastConnect # NoCall =>
        /\ Len(lastConnect.delegated) = 1
        /\ \E i \in 1..Len(rules) :
              /\ Matches(rules[i][1], lastConnect.s)
              /\ \A j \in 1..(i - 1) : ~Matches(rules[j][1], lastConnect.s)
              /\ lastConnect.delegated[1] = rules[i][2]

\* The rule list the file's content stands for: each valid line in file
\* order (a line that is not a rule is skipped alone), then the catch-all
RulesOfContent(lines) ==
    SelectSeq(lines, LAMBDA l : Len(l) = 2 /\ ~StartsWithHash(l)
                                 /\ Compiles(l[1])
                                 /\ SchemeOf(l[2]) \in {"reject", "direct", "socks",
                                                        "http", "rules"})
    \o <<CatchAll>>

\* C4: once check_update has run after the file's mtime changed, a connect
\* dispatches against the list parsed from the file's current content.
C4_DispatchUsesCurrentContent ==
    (lastConnect # NoCall /\ modify_time = file.mtime) =>
        rules = RulesOfContent(file.lines)

\* The bytes the client / the upstream have sent after the request
ClientBytes == [i \in 1..cSent |-> Byte("client", i)]
UpBytes == [i \in 1..uSent |-> Byte("upstream", i)]

IsPrefix(a, b) == Len(a) <= Len(b) /\ a = SubSeq(b, 1, Len(a))

\* C5: in a CONNECT session whose connector delivered a stream the client is
\* written exactly the 200 response before any relayed byte, and each side is
\* written the bytes the other side sent, unchanged, in order, once: all of
\* them that were read while both streams are open.
C5_TunnelRelaysInOrder ==
    (mode = "tunnel" /\ conn = "stream") =>
        /\ cout # <<>> => cout[1] = Established
        /\ IsPrefix(Tail(<<Established>> \o cout), <<Established>> \o UpBytes)
        /\ IsPrefix(uout, ClientBytes)
        /\ (inOpen /\ outOpen) =>
              /\ cout \o outbuf = <<Established>> \o UpBytes
              /\ uout \o inbuf = ClientBytes

C5_Witness ==
    /\ mode = "tunnel" /\ conn = "stream" /\ inOpen /\ outOpen
    /\ cout = <<Established, Byte("upstream", 1), Byte("upstream", 2)>>
    /\ uout = <<Byte("client", 1), Byte("client", 2)>>

\* C6: in a CONNECT session whose connector called back with no stream the
\* client stream is closed and nothing was written to it.
C6_FailedConnectClosesSilently ==
    (mode = "tunnel" /\ conn = "failed") => (~inOpen /\ cout = <<>>)

C6_Witness ==
    mode = "tunnel" /\ conn = "failed" /\ ~inOpen /\ ~cEOF

\* The names of the received header lines, each once, in the order of their
\* first appearance
RECURSIVE NamesInOrder(_, _)
NamesInOrder(hdrs, seen) ==
    IF hdrs = <<>> THEN seen
    ELSE NamesInOrder(Tail(hdrs),
            IF Head(hdrs).colon /\ \A i \in 1..Len(seen) : seen[i] # Head(hdrs).name
            THEN Append(seen, Head(hdrs).name)
            ELSE seen)

\* The value of the last received line named n: what follows ':' and one byte
LastValue(hdrs, n) ==
    LET i == CHOOSE i \in 1..Len(hdrs) :
                /\ hdrs[i].colon /\ hdrs[i].name = n
                /\ \A j \in (i + 1)..Len(hdrs) : ~(hdrs[j].colon /\ hdrs[j].name = n)
    IN  IF hdrs[i].lead >= 1
        THEN [lead |-> hdrs[i].lead - 1, chop |-> FALSE, text |-> hdrs[i].text]
        ELSE [lead |-> 0, chop |-> TRUE, text |-> hdrs[i].text]

\* The header lines a plain request is forwarded with
ForwardedHeaders(hdrs) ==
    LET kept == SelectSeq(NamesInOrder(hdrs, <<>>),
                          LAMBDA n : n # "Proxy-Connection")
        all == IF \E i \in 1..Len(kept) : kept[i] = "Connection"
               THEN kept ELSE Append(kept, "Connection")
    IN  [i \in 1..Len(all) |->
            HeaderItem(all[i], IF all[i] = "Connection" THEN Val("close")
                               ELSE LastValue(hdrs, all[i]))]

\* C7: for a plain request with a Host header whose connector delivered a
\* stream, what is written upstream is the request line with the path-only
\* target, the received headers in their order without Proxy-Connection and
\* with Connection: close, and a blank line (a prefix of it if the upstream
\* closes during the writes).
C7_PlainRequestHead ==
    (mode = "plain" /\ conn = "stream") =>
        LET expected == <<ReqLine(req.line[1], PathOnly(req.line[2]), req.line[3])>>
                        \o ForwardedHeaders(req.hdrs) \o <<Blank>>
        IN  /\ IsPrefix(uout, expected) \/ IsPrefix(expected, uout)
            /\ outOpen => IsPrefix(expected, uout)

C7_Witness ==
    /\ mode = "plain" /\ conn = "stream" /\ outOpen
    /\ req.line[2] = "http://example.com/a?b=1"
    /\ uout = << ReqLine("GET", "/a?b=1", "HTTP/1.1"),
                 HeaderItem("Host", Val("example.com")),
                 HeaderItem("Connection", Val("close")),
                 Blank >>
    /\ \E i \in 1..Len(req.hdrs) : req.hdrs[i].name = "Proxy-Connection"

\* The body bytes forwarded upstream: what follows the head in uout
BodyForwarded == SubSeq(uout, Len(headers) + 3, Len(uout))

ContentLength == IntOf(DictGet(headers, "Content-Length"))

HasContentLength ==
    mode = "plain" /\ conn = "stream" /\ DictHas(headers, "Content-Length")

\* C8 as claimed: no response byte is written to the client while fewer than
\* Content-Length body bytes have been forwarded upstream.
C8_NoResponseBeforeBody ==
    (HasContentLength /\ cout # <<>>) => Len(BodyForwarded) = ContentLength

\* C8 as amended: the body bytes forwarded upstream are the first bytes the
\* client sent, in order, never more than Content-Length of them, and the read
\* of the body wants what is left of them; the response bytes written to
\* the client are the first bytes the upstream sent, in order, whatever the
\* progress of the body.
C8_BodyIsBoundedPrefix ==
    HasContentLength =>
        /\ Len(uout) >= Len(headers) + 2 => IsPrefix(BodyForwarded, ClientBytes)
        /\ Len(BodyForwarded) <= ContentLength
        /\ inRead = "body" => need + Len(BodyForwarded) = ContentLength
        /\ (inRead = "none" /\ inOpen) => Len(BodyForwarded) = ContentLength
        /\ IsPrefix(cout, UpBytes)

C8_Witness ==
    /\ HasContentLength /\ ContentLength = 1 /\ cSent = 2
    /\ BodyForwarded = <<Byte("client", 1)>>
    /\ inRead = "none" /\ inOpen
    /\ cout = <<Byte("upstream", 1)>>

\* C9: a plain request served by the Reject connector gets exactly
\* 'HTTP/1.1 410 Gone' and the end of the stream, and no socket is opened
\* (a client stream that had closed before is written nothing).
C9_RejectAnswersGone ==
    (mode = "plain" /\ conn = "reject") =>
        /\ ~inOpen
        /\ sockets = 0
        /\ cout \in {<<Gone>>, <<>>}
        /\ ~cEOF => cout = <<Gone>>
        /\ uout = <<>>

C9_Witness ==
    /\ mode = "plain" /\ conn = "reject" /\ connector = "rules"
    /\ lastConnect.delegated = <<"reject://">>
    /\ cout = <<Gone>> /\ ~inOpen /\ ~cEOF

\* C10: callback gets the stream if and only if the 8 byte answer was read
\* and its byte at offset 1 is 0x5a; any other answer, and a connection closed
\* before the answer, gets it None.
C10_SocksSuccessIffGranted ==
    kstage = "over" =>
        /\ (\E i \in 1..Len(kcalls) : kcalls[i] = "stream")
              <=> (krecv = 8 /\ kreply[2] = SocksGranted)
        /\ (\E i \in 1..Len(kcalls) : kcalls[i] = "None")
              <=> ~(krecv = 8 /\ kreply[2] = SocksGranted)

C10_Witness ==
    /\ kstage = "over" /\ krecv = 8
    /\ kreply[1] = 90 /\ kreply[2] = 91
    /\ kcalls = <<"None">>

\* C11: callback gets the stream if and only if the answer was read up to its
\* blank line and the second token of its first line is 200; any other
\* answer, and a connection closed before the blank line, gets it None.
HttpGranted ==
    /\ hrecv = Len(hreply) /\ Len(hreply) >= 1
    /\ Len(hreply[1]) >= 2 /\ hreply[1][2] = "200"

C11_HttpSuccessIffStatus200 ==
    hstage = "over" =>
        /\ (\E i \in 1..Len(hcalls) : hcalls[i] = "stream") <=> HttpGranted
        /\ (\E i \in 1..Len(hcalls) : hcalls[i] = "None") <=> ~HttpGranted

\* What C5 says of a tunnel, for the handler state T
RelayedInOrder(T) ==
    (T.mode = "tunnel" /\ T.conn = "stream") =>
        /\ T.cout # <<>> => T.cout[1] = Established
        /\ IsPrefix(Tail(<<Established>> \o T.cout),
                    <<Established>> \o [i \in 1..T.uSent |-> Byte("upstream", i)])
        /\ IsPrefix(T.uout, [i \in 1..T.cSent |-> Byte("client", i)])
        /\ (T.inOpen /\ T.outOpen) =>
              /\ T.cout \o T.outbuf
                   = <<Established>> \o [i \in 1..T.uSent |-> Byte("upstream", i)]
              /\ T.uout \o T.inbuf = [i \in 1..T.cSent |-> Byte("client", i)]

EstablishedWriteFailed == mode = "tunnel" /\ conn = "stream" /\ cout = <<>>

\* C13 as claimed: after the failed write both streams are closed and pipe is
\* not invoked: no read_until_close is registered or has its callbacks
\* scheduled on either stream.
C13_NoPipeAfterFailedWrite ==
    EstablishedWriteFailed =>
        /\ ~inOpen /\ ~outOpen
        /\ inRead = "none" /\ outRead = "none"
        /\ ~inFinal /\ ~outFinal

\* C13 as amended: after the failed write both streams are closed, no read
\* stays registered on either and no byte is ever written to either, although
\* pipe is invoked on the two closed streams.
C13_FailedWriteClosesBoth ==
    EstablishedWriteFailed =>
        /\ ~inOpen /\ ~outOpen
        /\ inRead = "none" /\ outRead = "none"
        /\ uout = <<>>

C13_Witness ==
    /\ EstablishedWriteFailed /\ cEOF /\ cSent > 0
    /\ ~inOpen /\ ~outOpen /\ inFinal /\ outFinal

\* The request is a plain one and none of its header lines is named Host
PlainWithoutHost ==
    /\ Len(req.line) = 3 /\ req.line[1] # "CONNECT"
    /\ \A i \in 1..Len(req.hdrs) : ~(req.hdrs[i].colon /\ req.hdrs[i].name = "Host")

\* The request line has been handled and on_headers is not about to run
RequestHandled == inRead # "line" /\ ~(inRead = "headers" /\ Len(req.hdrs) > 0)

\* C14: once a plain request without Host header has been received and
\* handled, the client stream is closed, nothing was written to it and the
\* connector's connect was not called.
C14_NoHostClosesClient ==
    (PlainWithoutHost /\ RequestHandled) =>
        /\ ~inOpen
        /\ cout = <<>>
        /\ conn = "idle" /\ sockets = 0 /\ lastConnect = NoCall

\* C15: once a request line that does not split into three tokens has been
\* handled, the client stream is closed, nothing was written to it, no read
\* of the headers is registered and the connector was not called.
C15_BadRequestLineAborts ==
    (Len(req.line) # 3 /\ inRead # "line") =>
        /\ ~inOpen /\ cout = <<>>
        /\ inRead = "none" /\ method = "" /\ headers = <<>>
        /\ mode = "none" /\ conn = "idle" /\ sockets = 0 /\ lastConnect = NoCall

C15_Witness ==
    /\ Len(req.line) = 4 /\ inRead = "none" /\ raised = "ValueError"
    /\ ~inOpen /\ ~cEOF /\ cout = <<>>

\* pipe(self.incoming, outgoing) has been called on a real stream
Piped == mode = "tunnel" /\ conn = "stream"

\* No callback of a read_until_close is scheduled
RelayQuiet == ~inFinal /\ ~outFinal

\* C16: in a relay, once one stream has closed (end of stream or error) and
\* the scheduled callbacks have run, both streams are closed, whichever closed
\* first; and once both are closed nothing more is written to either.
C16_PipeClosesBoth ==
    /\ []((Piped /\ RelayQuiet /\ (~inOpen \/ ~outOpen)) => (~inOpen /\ ~outOpen))
    /\ [][(Piped /\ ~inOpen /\ ~outOpen) => (cout' = cout /\ uout' = uout)]_<<rvars, svars, kvars, xvars>>

C16_Witness ==
    /\ Piped /\ RelayQuiet /\ ~inOpen /\ ~outOpen
    /\ cEOF /\ uEOF /\ raised = ""
    /\ Len(cout) = 3 /\ Len(uout) = 2

\* The file is loaded: check_update has seen its mtime, it could be opened and
\* all its lines are text
Loaded ==
    modify_time = file.mtime /\ file.readable /\ FirstUndecodable(file.lines) = 0

\* C17: a load of a file whose lines are blank, comments, rules, or bad in
\* pattern, scheme or token count runs to its end, and the list it builds is
\* the valid lines in file order followed by the catch-all.
C17_BadLinesSkippedAlone ==
    Loaded => (rules = RulesOfContent(file.lines) /\ published = rules)

C17_Witness ==
    /\ Loaded /\ file.mtime > 0
    /\ file.lines = << <<"(", "direct://">>, <<".*badhost.*", "reject://">> >>
    /\ rules = << <<".*badhost.*", "reject://">>, CatchAll >>

\* C18: no RulesConnector.connect ends in the 'no available rule' error, and
\* a session whose dispatch matched nothing does not keep its client stream
\* open.
C18_DispatchIsTotal ==
    /\ ~lastConnect.raised
    /\ raised = "RuntimeError" => ~inOpen

\* C19: each call of connect calls its callback at most once, and exactly
\* once by the time its connection is established or has closed.
C19_ExactlyOneOutcome ==
    /\ Len(dcalls) <= 1 /\ Len(kcalls) <= 1 /\ Len(hcalls) <= 1
    /\ dstage \in {"connected", "over"} => Len(dcalls) = 1
    /\ kstage = "over" => Len(kcalls) = 1
    /\ hstage = "over" => Len(hcalls) = 1

\* C20: in a plain relay over a real stream, once one of the two streams has
\* closed and the scheduled callbacks have run, the other is closed too.
C20_PlainRelayClosesBoth ==
    (mode = "plain" /\ conn = "stream" /\ RelayQuiet /\ (~inOpen \/ ~outOpen))
        => (~inOpen /\ ~outOpen)

====
